---- MODULE Spec2Model ----
(***************************************************************************)
(* Layer animation engine of the NWS forecast page (src/main.js, the      *)
(* layer-aware revision starting at line 899): frame feeds, tile URLs,    *)
(* display modes, playback timer and the two map overlays.                *)
(*                                                                         *)
(* Conventions                                                             *)
(*   - opacity is kept in hundredths (60 stands for 0.60);                 *)
(*   - a URL is the sequence of its "/"-separated segments;                *)
(*   - JavaScript null for an overlay is NullLayer, for a timer handle 0,  *)
(*     for a frame time NoTime;                                            *)
(*   - every event handler runs to completion (one action per handler);    *)
(*     initRadarAnimation is split at its awaits.                          *)
(***************************************************************************)
EXTENDS Integers, Sequences, FiniteSets, Bags, TLC

VARIABLES
  currentLayerType,        \* 'radar' | 'satellite' | 'clouds' | 'temp'
  currentMode,             \* 'auto' | 'animated' | 'static' | 'off'
  rainFrames,              \* radar FrameSet: sequence of epoch seconds
  satelliteFrames,         \* satellite FrameSet: sequence of [path, time]
  radarLayer,              \* the static overlay object
  rainLayer,               \* the animated overlay object or NullLayer
  frameIndex,
  animTimer,               \* handle of the playback interval, 0 = null
  isPlaying,
  RECOMMENDED_MAX_FRAMES,
  MAX_FRAMES,
  FRAME_INTERVAL,
  LAYER_OPACITY,
  TILE_SIZE,
  map,                     \* which overlay objects the Leaflet map holds
  timers,                  \* intervals scheduled in the event loop
  slider,                  \* #frameSlider: max and disabled; the max of a
                           \* disabled slider is not kept: every enabling
                           \* assigns max before an input can read it
  refreshes,               \* bag of the initRadarAnimation calls in flight
  sameSource,              \* history: both FrameSets stem from one call
  overtaken,               \* history: the layer type was switched after
                           \* every call now in flight was issued
  issueCapUsed,            \* history: the FrameSets stored last were cut
                           \* to the MAX_FRAMES of the time their call
                           \* was issued
  lastOp                   \* history: what the last step did, where recorded

vars == <<currentLayerType, currentMode, rainFrames, satelliteFrames,
          radarLayer, rainLayer, frameIndex, animTimer, isPlaying,
          RECOMMENDED_MAX_FRAMES, MAX_FRAMES, FRAME_INTERVAL, LAYER_OPACITY,
          TILE_SIZE, map, timers, slider, refreshes, sameSource, overtaken,
          issueCapUsed, lastOp>>

(***************************************************************************)
(* Bounds of the model                                                     *)
(***************************************************************************)
\* initRadarAnimation calls that may be awaiting a response at once
MaxInFlight == 2

(***************************************************************************)
(* Generic helpers                                                         *)
(***************************************************************************)
Min(a, b) == IF a < b THEN a ELSE b
Max(a, b) == IF a > b THEN a ELSE b

\* JavaScript %: the result has the sign of the dividend
JsRem(a, n) == IF a >= 0 THEN a % n ELSE 0 - ((0 - a) % n)

\* Array.prototype.slice(-n)
SliceLast(seq, n) ==
  IF n <= 0 \/ Len(seq) <= n THEN seq
  ELSE SubSeq(seq, Len(seq) - n + 1, Len(seq))

\* insert index i into perm, which lists indices in ascending key order,
\* behind every index whose key is not larger (stable)
RECURSIVE InsertIdx(_, _, _)
InsertIdx(i, perm, keys) ==
  IF perm = <<>> THEN <<i>>
  ELSE IF keys[Head(perm)] <= keys[i]
       THEN <<Head(perm)>> \o InsertIdx(i, Tail(perm), keys)
       ELSE <<i>> \o perm

RECURSIVE SortPerm(_, _)
SortPerm(keys, n) ==
  IF n = 0 THEN <<>> ELSE InsertIdx(n, SortPerm(keys, n - 1), keys)

\* Array.prototype.sort((a, b) => key(a) - key(b)), which is stable; keys[i]
\* is the key of seq[i]
SortByKeys(seq, keys) ==
  LET perm == SortPerm(keys, Len(seq))
  IN [i \in 1..Len(seq) |-> seq[perm[i]]]

(***************************************************************************)
(* Layer types                                                             *)
(***************************************************************************)
VALID_LAYER_TYPES == <<"radar", "satellite", "clouds", "temp">>

LAYER_ALIASES ==
  [radar |-> "radar", precip |-> "radar", precipitation |-> "radar",
   rain |-> "radar", satellite |-> "satellite", visible |-> "satellite",
   vis |-> "satellite", clouds |-> "clouds", cloud |-> "clouds",
   ir |-> "clouds", infrared |-> "clouds", temp |-> "temp",
   temperature |-> "temp"]

\* String.prototype.toLowerCase on the strings the model feeds in
ToLowerCase(str) ==
  CASE str = "IR" -> "ir"
    [] str = "Temp" -> "temp"
    [] OTHER -> str

normalizeLayerType(layerType) ==
  IF layerType = "" THEN "radar"
  ELSE LET key == ToLowerCase(layerType) IN
       IF key \in DOMAIN LAYER_ALIASES THEN LAYER_ALIASES[key]
       ELSE IF \E k \in 1..Len(VALID_LAYER_TYPES) : VALID_LAYER_TYPES[k] = key
            THEN key ELSE "radar"

(***************************************************************************)
(* Tile URL resolver                                                       *)
(***************************************************************************)
getStaticLayerUrl(layerType) ==
  LET normalized == normalizeLayerType(layerType)
      base == "https://mesonet.agron.iastate.edu/cache/tile.py/1.0.0"
  IN CASE normalized = "radar" ->
            <<base, "ridge::USCOMP-N0Q-0", "{z}", "{x}", "{y}.png">>
       [] normalized = "satellite" ->
            <<base, "ridge::GOES-CONUS-VIS-0", "{z}", "{x}", "{y}.png">>
       [] normalized = "clouds" ->
            <<base, "ridge::GOES-CONUS-13-0", "{z}", "{x}", "{y}.png">>
       [] normalized = "temp" ->
            <<base, "ridge::GOES-CONUS-13-0", "{z}", "{x}", "{y}.png">>
       [] OTHER ->
            <<base, "ridge::USCOMP-N0Q-0", "{z}", "{x}", "{y}.png">>

getLayerAttribution(layerType) ==
  LET normalized == normalizeLayerType(layerType)
  IN CASE normalized = "radar" ->
            "Animated: RainViewer - Static: NEXRAD (Iowa State Mesonet)"
       [] normalized = "satellite" ->
            "Animated: RainViewer Satellite - Static: GOES Visible (Iowa State Mesonet)"
       [] normalized = "clouds" ->
            "Animated: RainViewer Infrared - Static: GOES IR (Iowa State Mesonet)"
       [] normalized = "temp" ->
            "Animated: RainViewer Infrared - Static: GOES IR (Iowa State Mesonet)"
       [] OTHER ->
            "Animated: RainViewer - Static: NEXRAD (Iowa State Mesonet)"

\* variant: clouds and temp are served the visible band of satellite
rvFrameUrlVisible(frameToken, size, layerType) ==
  LET normalized == normalizeLayerType(layerType)
      base == "https://tilecache.rainviewer.com/v2"
  IN IF normalized = "radar"
     THEN <<base, "radar", ToString(frameToken), ToString(size),
            "{z}", "{x}", "{y}", "2", "1_1.png">>
     ELSE <<base, "satellite", IF frameToken = "" THEN "0" ELSE frameToken,
            ToString(size), "{z}", "{x}", "{y}", "0", "0_0.png">>

\* frameToken is a number for radar and a path string otherwise
rvFrameUrl(frameToken, size, layerType) ==
  LET normalized == normalizeLayerType(layerType)
      base == "https://tilecache.rainviewer.com/v2"
  IN IF normalized = "radar"
     THEN <<base, "radar", ToString(frameToken), ToString(size),
            "{z}", "{x}", "{y}", "2", "1_1.png">>
     ELSE LET pathId == IF frameToken = "" THEN "0" ELSE frameToken
          IN IF normalized = "satellite"
             THEN <<base, "satellite", pathId, ToString(size),
                    "{z}", "{x}", "{y}", "0", "0_0.png">>
             ELSE <<base, "satellite", pathId, ToString(size),
                    "{z}", "{x}", "{y}", "0", "0_1.png">>

(***************************************************************************)
(* Frame normalizer                                                        *)
(***************************************************************************)
\* Number(x) that is not finite (NaN), and the null time of a frame
NoTime == 0 - 1

IsFinite(n) == n # NoTime

\* a JSON value of the satellite feed: an array (isArray) of values, or an
\* object with an optional string path ("" when absent or not a string), an
\* optional numeric time and its object/array valued properties (kids)
RECURSIVE visit(_)
visit(val) ==
  LET RECURSIVE Each(_)
      Each(vs) == IF vs = <<>> THEN <<>> ELSE visit(Head(vs)) \o Each(Tail(vs))
  IN IF val.isArray THEN Each(val.kids)
     ELSE (IF val.path # ""
           THEN <<[path |-> val.path,
                   time |-> IF IsFinite(val.time) THEN val.time ELSE NoTime]>>
           ELSE <<>>) \o Each(val.kids)

\* variant: a path seen before is pushed again
DedupeKeepsAll(frames, seenPaths) == frames

RECURSIVE Dedupe(_, _)
Dedupe(frames, seenPaths) ==
  IF frames = <<>> THEN <<>>
  ELSE LET frame == Head(frames) IN
       IF frame.path = "" \/ frame.path \in seenPaths
       THEN Dedupe(Tail(frames), seenPaths)
       ELSE <<frame>> \o Dedupe(Tail(frames), seenPaths \cup {frame.path})

SatSortKey(frame) == IF IsFinite(frame.time) THEN frame.time ELSE 0

extractSatelliteFrames(source) ==
  LET deduped == Dedupe(visit(source), {})
  IN SortByKeys(deduped, [i \in 1..Len(deduped) |-> SatSortKey(deduped[i])])

\* Array.prototype.filter(Number.isFinite)
RECURSIVE FilterFinite(_)
FilterFinite(seq) ==
  IF seq = <<>> THEN <<>>
  ELSE (IF IsFinite(Head(seq)) THEN <<Head(seq)>> ELSE <<>>)
       \o FilterFinite(Tail(seq))

\* variant: the cut keeps the oldest maxFrames values
RadarFramesOldest(raw, maxFrames) ==
  LET frames == FilterFinite(raw)
      sorted == SortByKeys(frames, frames)
  IN IF maxFrames <= 0 \/ Len(sorted) <= maxFrames THEN sorted
     ELSE SubSeq(sorted, 1, maxFrames)

\* raw is past.concat(nowc).map(f => Number(f.time)), or data.map(Number)
RadarFrames(raw, maxFrames) ==
  LET frames == FilterFinite(raw)
  IN SliceLast(SortByKeys(frames, frames), maxFrames)

getFrameToken(frame, layerType) ==
  IF normalizeLayerType(layerType) = "radar" THEN frame ELSE frame.path

getFrameTimestamp(frame, layerType) ==
  IF normalizeLayerType(layerType) = "radar" THEN frame ELSE frame.time

(***************************************************************************)
(* Resource budgeter                                                       *)
(***************************************************************************)
\* deviceMemory 0 stands for an absent navigator.deviceMemory
\* variant: a missing navigator.deviceMemory is not replaced by 4
RecommendedMaxFramesNoDefault(isMobile, deviceMemory) ==
  Min(60, IF isMobile THEN 24
          ELSE IF deviceMemory >= 8 THEN 48
          ELSE IF deviceMemory >= 4 THEN 36 ELSE 24)

RecommendedMaxFrames(isMobile, deviceMemory) ==
  LET DEVICE_MEM == IF deviceMemory = 0 THEN 4 ELSE deviceMemory
  IN Min(60, IF isMobile THEN 24
             ELSE IF DEVICE_MEM >= 8 THEN 48
             ELSE IF DEVICE_MEM >= 4 THEN 36 ELSE 24)

(***************************************************************************)
(* The program state as one record, so that a handler is the composition   *)
(* of the functions it calls                                               *)
(***************************************************************************)
St ==
  [currentLayerType |-> currentLayerType, currentMode |-> currentMode,
   rainFrames |-> rainFrames, satelliteFrames |-> satelliteFrames,
   radarLayer |-> radarLayer, rainLayer |-> rainLayer,
   frameIndex |-> frameIndex, animTimer |-> animTimer,
   isPlaying |-> isPlaying, MAX_FRAMES |-> MAX_FRAMES,
   FRAME_INTERVAL |-> FRAME_INTERVAL, LAYER_OPACITY |-> LAYER_OPACITY,
   TILE_SIZE |-> TILE_SIZE, map |-> map, timers |-> timers,
   slider |-> slider,
   \* set by a handler that calls L.tileLayer for the animated overlay
   created |-> FALSE]

Apply(s) ==
  /\ currentLayerType' = s.currentLayerType
  /\ currentMode' = s.currentMode
  /\ rainFrames' = s.rainFrames
  /\ satelliteFrames' = s.satelliteFrames
  /\ radarLayer' = s.radarLayer
  /\ rainLayer' = s.rainLayer
  /\ frameIndex' = s.frameIndex
  /\ animTimer' = s.animTimer
  /\ isPlaying' = s.isPlaying
  /\ MAX_FRAMES' = s.MAX_FRAMES
  /\ FRAME_INTERVAL' = s.FRAME_INTERVAL
  /\ LAYER_OPACITY' = s.LAYER_OPACITY
  /\ TILE_SIZE' = s.TILE_SIZE
  /\ map' = s.map
  /\ timers' = s.timers
  /\ slider' = s.slider
  /\ UNCHANGED RECOMMENDED_MAX_FRAMES

NullLayer == [url |-> <<>>, opacity |-> 0, tileSize |-> 0, attribution |-> ""]

\* variant: the animated overlay is created with the default opacity
NewRainLayerDefaultOpacity(s, tileUrl) ==
  [url |-> tileUrl, opacity |-> 60,
   tileSize |-> IF s.TILE_SIZE = 512 THEN 512 ELSE 256, attribution |-> ""]

\* L.tileLayer(url, opts) for the animated overlay
NewRainLayer(s, tileUrl) ==
  [url |-> tileUrl, opacity |-> s.LAYER_OPACITY,
   tileSize |-> IF s.TILE_SIZE = 512 THEN 512 ELSE 256, attribution |-> ""]

ActiveFrames(s) ==
  IF s.currentLayerType = "radar" THEN s.rainFrames ELSE s.satelliteFrames

HasFrames(s) ==
  IF s.currentLayerType = "radar" THEN Len(s.rainFrames) > 0
  ELSE Len(s.satelliteFrames) > 0

\* map.hasLayer(x) && map.removeLayer(x)
RemoveRadarLayer(s) == [s EXCEPT !.map.hasRadarLayer = FALSE]
RemoveRainLayer(s) == [s EXCEPT !.map.hasRainLayer = FALSE]

\* radarLayer = obj: an object that is still on the map when the variable is
\* overwritten stays on the map with nothing left to remove it
AssignRadarLayer(s, obj) ==
  [s EXCEPT !.radarLayer = obj,
            !.map.hasRadarLayer = FALSE,
            !.map.orphans = IF s.map.hasRadarLayer
                            THEN @ \cup {"static"} ELSE @]

AssignRainLayer(s, obj) ==
  [s EXCEPT !.rainLayer = obj,
            !.map.hasRainLayer = FALSE,
            !.map.orphans = IF s.map.hasRainLayer
                            THEN @ \cup {"animated"} ELSE @]

(***************************************************************************)
(* Playback                                                                *)
(***************************************************************************)
\* setInterval returns a handle no scheduled interval uses
NewTimerId(s) ==
  CHOOSE i \in 1..(Cardinality(s.timers) + 1) :
    /\ \A t \in s.timers : t.id # i
    /\ \A j \in 1..(i - 1) : \E t \in s.timers : t.id = j

\* variant: i % frames.length, without adding the length first
WrapIndexNoBias(i, n) == JsRem(i, n)

\* (i + frames.length) % frames.length
WrapIndex(i, n) == JsRem(i + n, n)

showFrame(s, i) ==
  LET frames == ActiveFrames(s) IN
  IF Len(frames) = 0 THEN s
  ELSE
    LET idx == WrapIndex(i, Len(frames))
        s1 == [s EXCEPT !.frameIndex = idx]
    IN IF idx \notin 0..(Len(frames) - 1) THEN s1   \* token == null
       ELSE
         LET token == getFrameToken(frames[idx + 1], s.currentLayerType)
             tileUrl == rvFrameUrl(token, s.TILE_SIZE, s.currentLayerType)
         IN IF s1.rainLayer # NullLayer /\ s1.map.hasRainLayer
            THEN [s1 EXCEPT !.rainLayer.url = tileUrl]
            ELSE LET s2 == [AssignRainLayer(s1, NewRainLayer(s1, tileUrl))
                              EXCEPT !.created = TRUE]
                 IN IF s2.currentMode \in {"animated", "auto"}
                    THEN [s2 EXCEPT !.map.hasRainLayer = TRUE]
                    ELSE s2

\* variant: no early return, an interval is scheduled on every call
playNoGuard(s) ==
  LET id == NewTimerId(s) IN
  [s EXCEPT !.isPlaying = TRUE,
            !.timers = @ \cup {[id |-> id, period |-> s.FRAME_INTERVAL]},
            !.animTimer = id]

play(s) ==
  IF s.animTimer # 0 \/ ~HasFrames(s) THEN s
  ELSE LET id == NewTimerId(s) IN
       [s EXCEPT !.isPlaying = TRUE,
                 !.timers = @ \cup {[id |-> id, period |-> s.FRAME_INTERVAL]},
                 !.animTimer = id]

\* variant: the handle is dropped without clearInterval
pauseKeepsInterval(s) == [s EXCEPT !.isPlaying = FALSE, !.animTimer = 0]

pause(s) ==
  [s EXCEPT !.isPlaying = FALSE,
            !.timers = IF s.animTimer # 0
                       THEN {t \in @ : t.id # s.animTimer} ELSE @,
            !.animTimer = 0]

(***************************************************************************)
(* Display mode                                                            *)
(***************************************************************************)
\* rainLayer && !map.hasLayer(rainLayer) && rainLayer.addTo(map)
AddRainLayer(s) ==
  IF s.rainLayer # NullLayer THEN [s EXCEPT !.map.hasRainLayer = TRUE] ELSE s

AddRadarLayer(s) ==
  IF s.radarLayer # NullLayer THEN [s EXCEPT !.map.hasRadarLayer = TRUE] ELSE s

\* the three branches of setMode
\* variant: the off branch removes the static overlay only
ModeOffKeepsRain(s) == RemoveRadarLayer(s)

ModeOff(s) == RemoveRainLayer(RemoveRadarLayer(s))
\* variant: the static branch leaves the animated overlay on the map
ModeStaticKeepsRain(s) == AddRadarLayer(s)

ModeStatic(s) == AddRadarLayer(RemoveRainLayer(s))
ModeAnimated(s) == AddRainLayer(RemoveRadarLayer(s))

\* variant: switching the overlays off also stops playback
setModeOffPauses(s, mode) ==
  LET s1 == [s EXCEPT !.currentMode = mode] IN
  IF mode = "off" THEN pause(ModeOff(s1))
  ELSE IF mode = "static" THEN ModeStatic(s1)
  ELSE ModeAnimated(s1)

setMode(s, mode) ==
  LET s1 == [s EXCEPT !.currentMode = mode] IN
  IF mode = "off" THEN ModeOff(s1)
  ELSE IF mode = "static" THEN ModeStatic(s1)
  ELSE ModeAnimated(s1)

setRadarOpacity(s, v) ==
  [s EXCEPT !.LAYER_OPACITY = v,
            !.radarLayer = IF @ # NullLayer THEN [@ EXCEPT !.opacity = v] ELSE @,
            !.rainLayer = IF @ # NullLayer THEN [@ EXCEPT !.opacity = v] ELSE @]

(***************************************************************************)
(* Layer type and resolution                                               *)
(***************************************************************************)
\* variant: playback is not resumed
ResumeNever(s, wasPlaying) == s

\* if (wasPlaying) play()
Resume(s, wasPlaying) == IF wasPlaying THEN play(s) ELSE s

\* variant: the static overlay object of the previous layer type is kept
setLayerTypeKeepsStatic(s, layerType) ==
  LET wasPlaying == s.isPlaying
      normalized == normalizeLayerType(layerType)
      s1 == IF wasPlaying THEN pause(s) ELSE s
      s2 == [s1 EXCEPT !.currentLayerType = normalized]
      s4 == RemoveRainLayer(RemoveRadarLayer(s2))
      frames == ActiveFrames(s4)
  IN IF Len(frames) > 0
     THEN LET s5 == [AssignRainLayer(s4, NullLayer) EXCEPT
                       !.frameIndex = Len(frames) - 1,
                       !.slider = [max |-> Len(frames) - 1, disabled |-> FALSE]]
              s6 == setMode(showFrame(s5, s5.frameIndex), s5.currentMode)
          IN Resume(s6, wasPlaying)
     ELSE LET s5 == [s4 EXCEPT !.slider = [max |-> 0, disabled |-> TRUE]]
          IN IF s5.currentMode \in {"animated", "auto"}
             THEN setMode(s5, "static")
             ELSE LET s6 == setMode(s5, s5.currentMode)
                  IN Resume(s6, wasPlaying)

setLayerType(s, layerType) ==
  LET wasPlaying == s.isPlaying
      normalized == normalizeLayerType(layerType)
      s1 == IF wasPlaying THEN pause(s) ELSE s
      s2 == [s1 EXCEPT !.currentLayerType = normalized]
      s3 == RemoveRainLayer(RemoveRadarLayer(s2))
      s4 == AssignRadarLayer(s3,
              [url |-> getStaticLayerUrl(normalized),
               opacity |-> s3.LAYER_OPACITY, tileSize |-> 256,
               attribution |-> getLayerAttribution(normalized)])
      frames == ActiveFrames(s4)
  IN IF Len(frames) > 0
     THEN LET s5 == [AssignRainLayer(s4, NullLayer) EXCEPT
                       !.frameIndex = Len(frames) - 1,
                       !.slider = [max |-> Len(frames) - 1, disabled |-> FALSE]]
              s6 == setMode(showFrame(s5, s5.frameIndex), s5.currentMode)
          IN Resume(s6, wasPlaying)
     ELSE LET s5 == [s4 EXCEPT !.slider = [max |-> 0, disabled |-> TRUE]]
          IN IF s5.currentMode \in {"animated", "auto"}
             THEN setMode(s5, "static")
             ELSE LET s6 == setMode(s5, s5.currentMode)
                  IN Resume(s6, wasPlaying)

\* variant: the latest frame is shown after the change
setResolutionShowsLatest(s, size) ==
  LET wasPlaying == s.isPlaying
      s1 == IF wasPlaying THEN pause(s) ELSE s
      s2 == [s1 EXCEPT !.TILE_SIZE = size,
                       !.FRAME_INTERVAL = IF size = 512 THEN 650 ELSE 450]
      s3 == AssignRainLayer(RemoveRainLayer(s2), NullLayer)
      s4 == setMode(showFrame(s3, Len(ActiveFrames(s3)) - 1), s3.currentMode)
  IN Resume(s4, wasPlaying)

setResolution(s, size) ==
  LET wasPlaying == s.isPlaying
      s1 == IF wasPlaying THEN pause(s) ELSE s
      s2 == [s1 EXCEPT !.TILE_SIZE = size,
                       !.FRAME_INTERVAL = IF size = 512 THEN 650 ELSE 450]
      s3 == AssignRainLayer(RemoveRainLayer(s2), NullLayer)
      s4 == setMode(showFrame(s3, s3.frameIndex), s3.currentMode)
  IN Resume(s4, wasPlaying)

(***************************************************************************)
(* Feed responses                                                          *)
(***************************************************************************)
Obj(path, time, kids) ==
  [isArray |-> FALSE, path |-> path, time |-> time, kids |-> kids]
Arr(kids) == [isArray |-> TRUE, path |-> "", time |-> NoTime, kids |-> kids]

\* { infrared: [ {time, path}, ... ] } with a repeated path
SatInline ==
  Obj("", NoTime, <<Arr(<<Obj("a", 100, <<>>), Obj("b", 200, <<>>),
                          Obj("a", 300, <<>>)>>)>>)
\* satellite.json: { satellite: { infrared: [...] } }, newest first
SatSecondary ==
  Obj("", NoTime, <<Obj("", NoTime, <<Arr(<<Obj("d", 250, <<>>),
                                             Obj("c", 150, <<>>),
                                             Obj("e", NoTime, <<>>)>>)>>)>>)
SatEmpty == Obj("", NoTime, <<>>)

\* a parsed maps.json: shape "object" with data.radar present or not,
\* shape "array" for the legacy list of timestamps; past, nowcast and legacy
\* hold Number(f.time) of each entry; nullEntry: an entry of past is null
Payload(shape, hasRadar, past, nowcast, legacy, nullEntry, hasSatellite, satellite) ==
  [shape |-> shape, hasRadar |-> hasRadar, past |-> past, nowcast |-> nowcast,
   legacy |-> legacy, nullEntry |-> nullEntry,
   hasSatellite |-> hasSatellite, satellite |-> satellite]

PFull ==
  Payload("object", TRUE, <<100, 200, 300>>, <<400>>, <<>>, FALSE, TRUE, SatInline)
PRadarOnly ==
  Payload("object", TRUE, <<600, NoTime, 500>>, <<>>, <<>>, FALSE, FALSE, SatEmpty)
PNothing ==
  Payload("object", FALSE, <<>>, <<>>, <<>>, FALSE, FALSE, SatEmpty)
PLegacy ==
  Payload("array", FALSE, <<>>, <<>>, <<600, 500>>, FALSE, FALSE, SatEmpty)
PNullEntry ==
  Payload("object", TRUE, <<100>>, <<>>, <<>>, TRUE, TRUE, SatInline)
\* more radar frames than the smallest cap keeps
PLong ==
  Payload("object", TRUE, <<10, 20, 30, 40, 50, 60, 70>>, <<80>>, <<>>,
          FALSE, TRUE, SatInline)

\* satellite data nested three deep under several keys: seven paths, one
\* of them twice, one frame without a time, not in time order
SatDeep ==
  Obj("", NoTime,
      <<Obj("", NoTime, <<Arr(<<Obj("p1", 70, <<>>), Obj("p2", 20, <<>>),
                                Obj("p3", NoTime, <<>>)>>)>>),
        Arr(<<Obj("p4", 40, <<Obj("p5", 10, <<>>)>>), Obj("p2", 90, <<>>),
              Obj("p6", 60, <<>>), Obj("p7", 30, <<>>)>>)>>)

Response(status, data) == [status |-> status, data |-> data]

\* outcomes of fetch(maps.json) followed by .json()
PrimaryResponses ==
  {Response("netfail", PNothing), Response("nonok", PNothing),
   Response("badjson", PNothing)}
  \cup {Response("ok", d) : d \in {PFull, PRadarOnly, PNothing, PLegacy, PNullEntry}}

\* outcomes of fetch(satellite.json) followed by .json()
SecondaryResponses ==
  {Response("netfail", SatEmpty), Response("nonok", SatEmpty),
   Response("badjson", SatEmpty), Response("ok", SatSecondary),
   Response("ok", SatEmpty)}

(***************************************************************************)
(* initRadarAnimation                                                      *)
(***************************************************************************)
\* lines 1361-1376: the radar FrameSet of a parsed payload
StoreRadarFrames(s, data) ==
  IF data.shape = "object" /\ data.hasRadar
  THEN [s EXCEPT !.rainFrames = RadarFrames(data.past \o data.nowcast, s.MAX_FRAMES)]
  ELSE IF data.shape = "array"
  THEN [s EXCEPT !.rainFrames = RadarFrames(data.legacy, s.MAX_FRAMES)]
  ELSE [s EXCEPT !.rainFrames = <<>>]

\* lines 1400-1432: store the satellite FrameSet and render the active layer
\* variant: the refresh always renders the radar frames
RefreshFramesRadar(s) == s.rainFrames

\* frames = currentLayerType === 'radar' ? rainFrames : satelliteFrames,
\* read when the call resumes
RefreshFrames(s) == ActiveFrames(s)

\* variant: without frames the controls are disabled and the mode is left
\* as it is
FinishRefreshNoFallback(s, satFrames) ==
  LET s1 == [s EXCEPT !.satelliteFrames = SliceLast(satFrames, s.MAX_FRAMES)]
      frames == RefreshFrames(s1)
  IN IF Len(frames) > 0
     THEN LET s2 == [s1 EXCEPT !.slider = [max |-> Len(frames) - 1,
                                           disabled |-> FALSE]]
              s3 == setMode(showFrame(s2, Len(frames) - 1), s2.currentMode)
          IN IF s3.map.hasRadarLayer /\ s3.currentMode \in {"animated", "auto"}
             THEN RemoveRadarLayer(s3) ELSE s3
     ELSE [s1 EXCEPT !.slider = [max |-> 0, disabled |-> TRUE]]

FinishRefresh(s, satFrames) ==
  LET s1 == [s EXCEPT !.satelliteFrames = SliceLast(satFrames, s.MAX_FRAMES)]
      frames == RefreshFrames(s1)
  IN IF Len(frames) > 0
     THEN LET s2 == [s1 EXCEPT !.slider = [max |-> Len(frames) - 1,
                                           disabled |-> FALSE]]
              s3 == setMode(showFrame(s2, Len(frames) - 1), s2.currentMode)
          IN IF s3.map.hasRadarLayer /\ s3.currentMode \in {"animated", "auto"}
             THEN RemoveRadarLayer(s3) ELSE s3
     ELSE setMode([s1 EXCEPT !.slider = [max |-> 0, disabled |-> TRUE]], "static")

\* a call in flight: where it waits, whether the radar FrameSet is the one
\* it stored, and the MAX_FRAMES of the time it was issued
Call(pc, rainMine, cap) == [pc |-> pc, rainMine |-> rainMine, cap |-> cap]

InFlight == BagToSet(refreshes)

\* lastOp: kind "ok" / "failed" after the step that finished a call (flag:
\* the call was overtaken by a layer switch), "none" otherwise;
\* the traced handlers further below record more
Op(kind, flag) == [kind |-> kind, flag |-> flag]
NoOp == Op("none", FALSE)

\* the call up to its first await
StartRefresh ==
  /\ BagCardinality(refreshes) < MaxInFlight
  /\ refreshes' = refreshes (+) SetToBag({Call("primary", FALSE, MAX_FRAMES)})
  /\ overtaken' = FALSE
  /\ lastOp' = NoOp
  /\ UNCHANGED <<sameSource, issueCapUsed>>

Failed(res) ==
  res.status # "ok" \/ (res.data.shape = "object" /\ res.data.hasRadar
                        /\ res.data.nullEntry)

NotMine(c) == [c EXCEPT !.rainMine = FALSE]

\* overtaken once the call r has finished
StillOvertaken(r) == overtaken /\ BagCardinality(refreshes) > 1

\* maps.json has answered (lines 1334-1401, up to the second fetch)
PrimaryResponse(r, res) ==
  /\ r.pc = "primary"
  /\ BagIn(r, refreshes)
  /\ LET others == refreshes (-) SetToBag({r}) IN
     IF Failed(res)
     THEN /\ Apply(setMode(St, "static"))
          /\ refreshes' = others
          /\ lastOp' = Op("failed", overtaken)
          /\ overtaken' = StillOvertaken(r)
          /\ UNCHANGED <<sameSource, issueCapUsed>>
     ELSE LET s1 == StoreRadarFrames(St, res.data)
              atIssue == StoreRadarFrames([St EXCEPT !.MAX_FRAMES = r.cap],
                                          res.data)
              satFrames == IF res.data.shape = "object" /\ res.data.hasSatellite
                           THEN extractSatelliteFrames(res.data.satellite)
                           ELSE <<>>
          IN IF Len(satFrames) = 0
             THEN /\ Apply(s1)
                  /\ refreshes' = BagOfAll(NotMine, others)
                                  (+) SetToBag({Call("secondary", TRUE, r.cap)})
                  /\ sameSource' = FALSE
                  /\ issueCapUsed' = (s1.rainFrames = atIssue.rainFrames)
                  /\ lastOp' = NoOp
                  /\ UNCHANGED overtaken
             ELSE /\ Apply(FinishRefresh(s1, satFrames))
                  /\ refreshes' = BagOfAll(NotMine, others)
                  /\ sameSource' = TRUE
                  /\ issueCapUsed' =
                       /\ s1.rainFrames = atIssue.rainFrames
                       /\ SliceLast(satFrames, MAX_FRAMES) = SliceLast(satFrames, r.cap)
                  /\ lastOp' = Op("ok", overtaken)
                  /\ overtaken' = StillOvertaken(r)

\* satellite.json has answered (lines 1388-1432)
SecondaryResponse(r, res) ==
  /\ r.pc = "secondary"
  /\ BagIn(r, refreshes)
  /\ LET satFrames == IF res.status = "ok"
                      THEN extractSatelliteFrames(res.data) ELSE <<>>
     IN Apply(FinishRefresh(St, satFrames))
  /\ refreshes' = refreshes (-) SetToBag({r})
  /\ sameSource' = r.rainMine
  /\ issueCapUsed' =
       LET satFrames == IF res.status = "ok"
                        THEN extractSatelliteFrames(res.data) ELSE <<>>
       IN SliceLast(satFrames, MAX_FRAMES) = SliceLast(satFrames, r.cap)
  /\ lastOp' = Op("ok", overtaken)
  /\ overtaken' = StillOvertaken(r)

(***************************************************************************)
(* Event handlers                                                          *)
(***************************************************************************)
History == <<refreshes, sameSource, overtaken, issueCapUsed>>

\* parseInt(value, 10) || fallback
OrElse(v, fallback) == IF v = 0 THEN fallback ELSE v

LayerSelectChange(v) ==
  /\ Apply(setLayerType(St, v))
  /\ lastOp' = NoOp
  /\ UNCHANGED History

PlayBtnClick ==
  /\ Apply(IF isPlaying THEN pause(St) ELSE play(St))
  /\ lastOp' = NoOp
  /\ UNCHANGED History

FrameSliderInput(v) ==
  /\ ~slider.disabled
  /\ v \in 0..slider.max
  /\ Apply(showFrame(pause(St), OrElse(v, 0)))
  /\ lastOp' = NoOp
  /\ UNCHANGED History

MaxFramesInput(v) ==
  /\ Apply([St EXCEPT !.MAX_FRAMES =
              Max(6, Min(60, OrElse(v, RECOMMENDED_MAX_FRAMES)))])
  /\ lastOp' = NoOp
  /\ UNCHANGED History

MaxFramesChange ==
  /\ Apply(pause(St))
  /\ StartRefresh

\* variant: a running interval is left at its old period
SpeedSliderNoRestart(v) ==
  /\ Apply([St EXCEPT !.FRAME_INTERVAL = Max(120, Min(800, OrElse(v, 450)))])
  /\ lastOp' = NoOp
  /\ UNCHANGED History

\* variant: the slider value is stored without the clamp
SpeedSliderUnclamped(v) ==
  /\ LET s1 == [St EXCEPT !.FRAME_INTERVAL = OrElse(v, 450)]
     IN Apply(IF s1.isPlaying THEN play(pause(s1)) ELSE s1)
  /\ lastOp' = NoOp
  /\ UNCHANGED History

SpeedSliderInput(v) ==
  /\ LET s1 == [St EXCEPT !.FRAME_INTERVAL = Max(120, Min(800, OrElse(v, 450)))]
     IN Apply(IF s1.isPlaying THEN play(pause(s1)) ELSE s1)
  /\ lastOp' = NoOp
  /\ UNCHANGED History

OpacitySliderInput(v) ==
  /\ Apply(setRadarOpacity(St, Max(20, Min(100, OrElse(v, 60)))))
  /\ lastOp' = NoOp
  /\ UNCHANGED History

ResolutionClick(size) ==
  /\ Apply(setResolution(St, size))
  /\ lastOp' = NoOp
  /\ UNCHANGED History

ModeClick(mode) ==
  /\ Apply(setMode(St, mode))
  /\ lastOp' = NoOp
  /\ UNCHANGED History

\* #refreshBtn: initialLoad
RefreshBtnClick ==
  /\ StartRefresh
  /\ Apply(St)

\* variant: the callback shows the current frame again
TimerTickSameFrame ==
  /\ \E t \in timers : Apply(showFrame(St, frameIndex))
  /\ lastOp' = NoOp
  /\ UNCHANGED History

\* the interval callback: showFrame(frameIndex + 1)
TimerTick ==
  /\ \E t \in timers : Apply(showFrame(St, frameIndex + 1))
  /\ lastOp' = NoOp
  /\ UNCHANGED History

(***************************************************************************)
(* Traced handlers: the same code, with lastOp recording the step           *)
(***************************************************************************)
\* setLayerType; flag: playback was running before the call.  A switch to
\* another layer type overtakes the calls in flight
LayerSelectTraced(v) ==
  /\ Apply(setLayerType(St, v))
  /\ overtaken' = (overtaken \/ (normalizeLayerType(v) # currentLayerType
                                  /\ refreshes # EmptyBag))
  /\ lastOp' = Op("layer", isPlaying /\ animTimer # 0)
  /\ UNCHANGED <<refreshes, sameSource, issueCapUsed>>

\* advanceFrame(direction) of the engine interface: showFrame(frameIndex +
\* direction), the timer callback being direction = +1
AdvanceFrame(direction) ==
  /\ Apply(showFrame(St, frameIndex + direction))
  /\ lastOp' = Op(IF direction = 1 THEN "forward" ELSE "back", FALSE)
  /\ UNCHANGED History

(***************************************************************************)
(* Wind parsing                                                            *)
(***************************************************************************)
MaxWindLen == 4

\* JavaScript values: null, undefined, a number (in tenths), a string (its
\* characters), a forecast period (windGust is JsUndefined when missing)
JsNull == [type |-> "null"]
JsUndefined == [type |-> "undefined"]
Num(tenths) == [type |-> "number", value |-> tenths]
Str(chars) == [type |-> "string", chars |-> chars]
Period(windGust) == [type |-> "object", windGust |-> windGust]

Digits == <<"0", "1", "2", "3", "4", "5", "6", "7", "8", "9">>
IsDigit(c) == \E i \in 1..Len(Digits) : Digits[i] = c

\* String.prototype.match(/\d+/g): the maximal runs of digits, in order;
\* run is the run being read
RECURSIVE MatchDigits(_, _)
MatchDigits(chars, run) ==
  LET done == IF run = <<>> THEN <<>> ELSE <<run>>
  IN IF chars = <<>> THEN done
     ELSE IF IsDigit(Head(chars))
     THEN MatchDigits(Tail(chars), Append(run, Head(chars)))
     ELSE done \o MatchDigits(Tail(chars), <<>>)

\* parseInt(n, 10) of a run of digits
RECURSIVE ParseInt(_)
ParseInt(run) ==
  IF run = <<>> THEN 0
  ELSE 10 * ParseInt(SubSeq(run, 1, Len(run) - 1))
       + (CHOOSE i \in 1..Len(Digits) : Digits[i] = run[Len(run)]) - 1

\* Math.max(...nums) of a list that is not empty
RECURSIVE MathMax(_)
MathMax(nums) ==
  IF Len(nums) = 1 THEN ParseInt(nums[1])
  ELSE Max(ParseInt(Head(nums)), MathMax(Tail(nums)))

\* !windStr for null, undefined and strings
Falsy(v) == v.type \in {"null", "undefined"} \/ (v.type = "string" /\ v.chars = <<>>)

\* variant: the first number of the string is returned
parseWindMphFirst(windStr) ==
  IF Falsy(windStr) THEN JsNull
  ELSE LET nums == MatchDigits(windStr.chars, <<>>)
       IN IF nums = <<>> THEN JsNull ELSE Num(10 * ParseInt(nums[1]))

\* windStr is null, undefined or a string
parseWindMph(windStr) ==
  IF Falsy(windStr) THEN JsNull
  ELSE LET nums == MatchDigits(windStr.chars, <<>>)
       IN IF nums = <<>> THEN JsNull ELSE Num(10 * MathMax(nums))

\* Math.round: the nearest integer, a half going up
MathRound(tenths) == 10 * ((tenths + 5) \div 10)

\* variant: a numeric gust is cut to its integer part below
gustMphFloor(period) ==
  LET g == IF period.type = "object" THEN period.windGust ELSE JsUndefined
  IN IF g.type = "number" THEN Num(10 * (g.value \div 10))
     ELSE parseWindMph(g)

\* period is null or an object whose windGust is missing, null, a number or
\* a string
gustMph(period) ==
  LET g == IF period.type = "object" THEN period.windGust ELSE JsUndefined
  IN IF g.type = "number" THEN Num(MathRound(g.value))
     ELSE LET mph == parseWindMph(g)
          IN IF mph.type # "null" THEN mph ELSE JsNull

\* variant: satellite.json is fetched whatever the primary payload held
NeedsSecondaryAlways(satFrames) == TRUE

\* if (!satFrames.length): the secondary endpoint is asked
NeedsSecondary(satFrames) == Len(satFrames) = 0

\* the two response steps of the call, with lastOp recording the response
\* (flag: the step went on to fetch satellite.json)
FeedOp(kind, flag, res) == [kind |-> kind, flag |-> flag, res |-> res]

PrimaryTraced(r, res) ==
  /\ r.pc = "primary"
  /\ BagIn(r, refreshes)
  /\ LET others == refreshes (-) SetToBag({r}) IN
     IF Failed(res)
     THEN /\ Apply(setMode(St, "static"))
          /\ refreshes' = others
          /\ lastOp' = FeedOp("failed", FALSE, res)
          /\ overtaken' = StillOvertaken(r)
          /\ UNCHANGED <<sameSource, issueCapUsed>>
     ELSE LET s1 == StoreRadarFrames(St, res.data)
              atIssue == StoreRadarFrames([St EXCEPT !.MAX_FRAMES = r.cap],
                                          res.data)
              satFrames == IF res.data.shape = "object" /\ res.data.hasSatellite
                           THEN extractSatelliteFrames(res.data.satellite)
                           ELSE <<>>
          IN IF NeedsSecondary(satFrames)
             THEN /\ Apply(s1)
                  /\ refreshes' = BagOfAll(NotMine, others)
                                  (+) SetToBag({Call("secondary", TRUE, r.cap)})
                  /\ sameSource' = FALSE
                  /\ issueCapUsed' = (s1.rainFrames = atIssue.rainFrames)
                  /\ lastOp' = FeedOp("primary", TRUE, res)
                  /\ UNCHANGED overtaken
             ELSE /\ Apply(FinishRefresh(s1, satFrames))
                  /\ refreshes' = BagOfAll(NotMine, others)
                  /\ sameSource' = TRUE
                  /\ issueCapUsed' =
                       /\ s1.rainFrames = atIssue.rainFrames
                       /\ SliceLast(satFrames, MAX_FRAMES) = SliceLast(satFrames, r.cap)
                  /\ lastOp' = FeedOp("primary", FALSE, res)
                  /\ overtaken' = StillOvertaken(r)

\* variant: a failed satellite request discards the radar frames as well
SecondaryTracedDropsRadar(r, res) ==
  /\ r.pc = "secondary"
  /\ BagIn(r, refreshes)
  /\ LET satFrames == IF res.status = "ok"
                      THEN extractSatelliteFrames(res.data) ELSE <<>>
         s1 == IF res.status = "ok" THEN St ELSE [St EXCEPT !.rainFrames = <<>>]
     IN /\ Apply(FinishRefresh(s1, satFrames))
        /\ issueCapUsed' =
             (SliceLast(satFrames, MAX_FRAMES) = SliceLast(satFrames, r.cap))
  /\ refreshes' = refreshes (-) SetToBag({r})
  /\ sameSource' = r.rainMine
  /\ lastOp' = FeedOp("secondary", FALSE, res)
  /\ overtaken' = StillOvertaken(r)

SecondaryTraced(r, res) ==
  /\ r.pc = "secondary"
  /\ BagIn(r, refreshes)
  /\ LET satFrames == IF res.status = "ok"
                      THEN extractSatelliteFrames(res.data) ELSE <<>>
     IN /\ Apply(FinishRefresh(St, satFrames))
        /\ issueCapUsed' =
             (SliceLast(satFrames, MAX_FRAMES) = SliceLast(satFrames, r.cap))
  /\ refreshes' = refreshes (-) SetToBag({r})
  /\ sameSource' = r.rainMine
  /\ lastOp' = FeedOp("secondary", FALSE, res)
  /\ overtaken' = StillOvertaken(r)

(***************************************************************************)
(* Specifications                                                          *)
(***************************************************************************)
LayerInputs == {"radar", "satellite", "clouds", "temp", "IR", ""}
ModeInputs == {"auto", "animated", "static", "off"}
Devices == {[isMobile |-> FALSE, deviceMemory |-> 0]}

\* after init(): initMap has attached the static NEXRAD overlay and
\* initialLoad has issued the first initRadarAnimation
Init ==
  /\ currentLayerType = "radar"
  /\ currentMode = "auto"
  /\ rainFrames = <<>>
  /\ satelliteFrames = <<>>
  /\ radarLayer = [url |-> getStaticLayerUrl("radar"), opacity |-> 60,
                   tileSize |-> 256,
                   attribution |-> "Radar (c) Iowa State Mesonet / NWS NEXRAD"]
  /\ rainLayer = NullLayer
  /\ frameIndex = 0
  /\ animTimer = 0
  /\ isPlaying = FALSE
  /\ \E d \in Devices :
       RECOMMENDED_MAX_FRAMES = RecommendedMaxFrames(d.isMobile, d.deviceMemory)
  /\ MAX_FRAMES = RECOMMENDED_MAX_FRAMES
  /\ FRAME_INTERVAL = 450
  /\ LAYER_OPACITY = 60
  /\ TILE_SIZE = 256
  /\ map = [hasRadarLayer |-> TRUE, hasRainLayer |-> FALSE, orphans |-> {}]
  /\ timers = {}
  /\ slider = [max |-> 0, disabled |-> FALSE]
  /\ refreshes = SetToBag({Call("primary", FALSE, MAX_FRAMES)})
  /\ sameSource = TRUE
  /\ issueCapUsed = TRUE
  /\ overtaken = FALSE
  /\ lastOp = NoOp

\* the controls other than the layer select, driven with the given slider
\* positions and tile sizes
Controls(maxFramesInputs, speedInputs, opacityInputs, sizes) ==
  \/ PlayBtnClick
  \/ \E v \in 0..slider.max : FrameSliderInput(v)
  \/ \E v \in maxFramesInputs : MaxFramesInput(v)
  \/ MaxFramesChange
  \/ \E v \in speedInputs : SpeedSliderInput(v)
  \/ \E v \in opacityInputs : OpacitySliderInput(v)
  \/ \E size \in sizes : ResolutionClick(size)
  \/ \E mode \in ModeInputs : ModeClick(mode)
  \/ RefreshBtnClick

\* the event loop delivering responses and timer callbacks
Environment ==
  \/ \E r \in InFlight : \E res \in PrimaryResponses : PrimaryResponse(r, res)
  \/ \E r \in InFlight : \E res \in SecondaryResponses : SecondaryResponse(r, res)
  \/ TimerTick

\* the engine with the max-frames and opacity sliders resting at the
\* positions of their defaults
Next ==
  \/ \E v \in LayerInputs : LayerSelectChange(v)
  \/ Controls({36}, {50}, {60}, {256, 512})
  \/ Environment

Spec == Init /\ [][Next]_vars

\* the traced engine at standard resolution and default speed
NextTraced ==
  \/ \E v \in LayerInputs : LayerSelectTraced(v)
  \/ \E direction \in {0 - 1, 1} : AdvanceFrame(direction)
  \/ Controls({36}, {450}, {60}, {256})
  \/ Environment

SpecTraced == Init /\ [][NextTraced]_vars

\* the engine with the max-frames control moved over its whole range and
\* beyond, fed with a payload longer than the smallest cap
MaxFramesInputs == {0 - 3, 0, 3, 7, 36, 999}
SettingsPrimary ==
  {Response("ok", PLong), Response("ok", PRadarOnly), Response("nonok", PNothing)}
SettingsSecondary == {Response("ok", SatSecondary), Response("netfail", SatEmpty)}

NextSettings ==
  \/ \E v \in MaxFramesInputs : MaxFramesInput(v)
  \/ MaxFramesChange
  \/ RefreshBtnClick
  \/ PlayBtnClick
  \/ \E v \in 0..slider.max : FrameSliderInput(v)
  \/ \E r \in InFlight : \E res \in SettingsPrimary : PrimaryResponse(r, res)
  \/ \E r \in InFlight : \E res \in SettingsSecondary : SecondaryResponse(r, res)
  \/ TimerTick

SpecSettings == Init /\ [][NextSettings]_vars

\* the engine started on any device, with lastOp recording the device, and
\* the sliders moved to the ends of their ranges and beyond
\* deviceMemory 0: navigator.deviceMemory is undefined
AllDevices ==
  {[isMobile |-> m, deviceMemory |-> d] : m \in BOOLEAN, d \in {0, 1, 2, 4, 8}}

InitAnyDevice ==
  /\ currentLayerType = "radar"
  /\ currentMode = "auto"
  /\ rainFrames = <<>>
  /\ satelliteFrames = <<>>
  /\ radarLayer = [url |-> getStaticLayerUrl("radar"), opacity |-> 60,
                   tileSize |-> 256,
                   attribution |-> "Radar (c) Iowa State Mesonet / NWS NEXRAD"]
  /\ rainLayer = NullLayer
  /\ frameIndex = 0
  /\ animTimer = 0
  /\ isPlaying = FALSE
  /\ \E d \in AllDevices :
       /\ RECOMMENDED_MAX_FRAMES = RecommendedMaxFrames(d.isMobile, d.deviceMemory)
       /\ lastOp = [kind |-> "init", flag |-> FALSE, device |-> d]
  /\ MAX_FRAMES = RECOMMENDED_MAX_FRAMES
  /\ FRAME_INTERVAL = 450
  /\ LAYER_OPACITY = 60
  /\ TILE_SIZE = 256
  /\ map = [hasRadarLayer |-> TRUE, hasRainLayer |-> FALSE, orphans |-> {}]
  /\ timers = {}
  /\ slider = [max |-> 0, disabled |-> FALSE]
  /\ refreshes = SetToBag({Call("primary", FALSE, MAX_FRAMES)})
  /\ sameSource = TRUE
  /\ overtaken = FALSE
  /\ issueCapUsed = TRUE

SpeedInputs == {0, 50, 5000}
OpacityInputs == {0, 10, 150}
ControlsPrimary == {Response("ok", PFull), Response("nonok", PNothing)}

NextControls ==
  \/ \E v \in SpeedInputs : SpeedSliderInput(v)
  \/ \E v \in OpacityInputs : OpacitySliderInput(v)
  \/ \E v \in {0, 3, 999} : MaxFramesInput(v)
  \/ \E size \in {256, 512} : ResolutionClick(size)
  \/ PlayBtnClick
  \/ RefreshBtnClick
  \/ \E r \in InFlight : \E res \in ControlsPrimary : PrimaryResponse(r, res)

SpecControls == InitAnyDevice /\ [][NextControls]_vars

\* the wind helpers applied to an argument drawn at the start: strings over
\* a small alphabet and the strings of the unit tests, null, undefined, and
\* periods with a gust that is missing, null, a number or one of the strings
WindAlphabet == {"1", "5", " ", "m"}
WindExamples ==
  {<<"5", " ", "t", "o", " ", "1", "5", " ", "m", "p", "h">>,
   <<"1", "0", " ", "m", "p", "h">>, <<"2", "5", " ", "m", "p", "h">>,
   <<"c", "a", "l", "m">>, <<"0", "9", "-", "1", "0">>, <<"1", ".", "5">>}
WindStrings ==
  UNION {[1..n -> WindAlphabet] : n \in 0..MaxWindLen} \cup WindExamples
WindArgs == {JsNull, JsUndefined} \cup {Str(chars) : chars \in WindStrings}
GustTenths == {0 - 25, 0 - 4, 0, 4, 5, 15, 246, 250}
Periods ==
  {JsNull} \cup {Period(g) : g \in WindArgs \cup {Num(t) : t \in GustTenths}}

WindOp(kind, arg, result) ==
  [kind |-> kind, flag |-> FALSE, arg |-> arg, result |-> result]

InitWind ==
  /\ currentLayerType = "radar"
  /\ currentMode = "auto"
  /\ rainFrames = <<>>
  /\ satelliteFrames = <<>>
  /\ radarLayer = [url |-> getStaticLayerUrl("radar"), opacity |-> 60,
                   tileSize |-> 256,
                   attribution |-> "Radar (c) Iowa State Mesonet / NWS NEXRAD"]
  /\ rainLayer = NullLayer
  /\ frameIndex = 0
  /\ animTimer = 0
  /\ isPlaying = FALSE
  /\ \E d \in Devices :
       RECOMMENDED_MAX_FRAMES = RecommendedMaxFrames(d.isMobile, d.deviceMemory)
  /\ MAX_FRAMES = RECOMMENDED_MAX_FRAMES
  /\ FRAME_INTERVAL = 450
  /\ LAYER_OPACITY = 60
  /\ TILE_SIZE = 256
  /\ map = [hasRadarLayer |-> TRUE, hasRainLayer |-> FALSE, orphans |-> {}]
  /\ timers = {}
  /\ slider = [max |-> 0, disabled |-> FALSE]
  /\ refreshes = SetToBag({Call("primary", FALSE, MAX_FRAMES)})
  /\ sameSource = TRUE
  /\ issueCapUsed = TRUE
  /\ overtaken = FALSE
  /\ \/ \E v \in WindArgs : lastOp = WindOp("windStr", v, JsUndefined)
     \/ \E v \in Periods : lastOp = WindOp("period", v, JsUndefined)

ParseWindMphCall ==
  /\ lastOp.kind = "windStr"
  /\ lastOp' = WindOp("parseWindMph", lastOp.arg, parseWindMph(lastOp.arg))
  /\ Apply(St)
  /\ UNCHANGED History

GustMphCall ==
  /\ lastOp.kind = "period"
  /\ lastOp' = WindOp("gustMph", lastOp.arg, gustMph(lastOp.arg))
  /\ Apply(St)
  /\ UNCHANGED History

NextWind == ParseWindMphCall \/ GustMphCall

SpecWind == InitWind /\ [][NextWind]_vars

\* the overlays of the four layer types at both tile sizes
TilesPrimary == {Response("ok", PFull), Response("ok", PLong)}

NextTiles ==
  \/ \E v \in {VALID_LAYER_TYPES[i] : i \in 1..Len(VALID_LAYER_TYPES)} :
       LayerSelectChange(v)
  \/ \E size \in {256, 512} : ResolutionClick(size)
  \/ \E mode \in {"animated", "static"} : ModeClick(mode)
  \/ \E v \in 0..7 : FrameSliderInput(v)
  \/ RefreshBtnClick
  \/ \E r \in InFlight : \E res \in TilesPrimary : PrimaryResponse(r, res)

SpecTiles == Init /\ [][NextTiles]_vars

\* the feed normalizer driven with radar lists that are unsorted, hold a
\* value that is not finite, repeat a timestamp or are longer than the
\* smallest cap, and with satellite data absent, inline or deeply nested
FeedPrimary ==
  {Response("ok", Payload("object", TRUE, f[1], f[2], <<>>, FALSE, f[3], f[4])) :
     f \in {<<<<100, 200, 300>>, <<400>>, FALSE, SatEmpty>>,
            <<<<300, 100, 200>>, <<>>, TRUE, SatInline>>,
            <<<<100, NoTime, 200>>, <<150>>, TRUE, SatDeep>>,
            <<<<100, 200>>, <<200>>, TRUE, SatEmpty>>,
            <<<<>>, <<>>, TRUE, SatInline>>,
            <<<<50, 40, 30, 20, 10, 60, 70>>, <<5>>, FALSE, SatEmpty>>,
            <<<<50, 40, 30, 20, 10, 60, 70>>, <<5>>, TRUE, SatDeep>>}}
  \cup {Response("nonok", PNothing), Response("ok", PNullEntry)}
FeedSecondary ==
  {Response("ok", SatSecondary), Response("ok", SatDeep),
   Response("ok", SatEmpty), Response("netfail", SatEmpty)}

NextFeed ==
  \/ \E r \in InFlight : \E res \in FeedPrimary : PrimaryTraced(r, res)
  \/ \E r \in InFlight : \E res \in FeedSecondary : SecondaryTraced(r, res)
  \/ MaxFramesInput(3)
  \/ RefreshBtnClick

SpecFeed == Init /\ [][NextFeed]_vars

\* the overlays under layer switches, mode buttons, both resolutions, the
\* opacity and speed sliders and playback, with feeds that leave the
\* satellite FrameSet empty or not
OverlayPrimary ==
  {Response("ok", PFull), Response("ok", PRadarOnly), Response("nonok", PNothing)}
OverlaySecondary == {Response("ok", SatSecondary), Response("netfail", SatEmpty)}

NextOverlays ==
  \/ \E v \in {"radar", "temp"} : LayerSelectChange(v)
  \/ \E size \in {256, 512} : ResolutionClick(size)
  \/ \E mode \in ModeInputs : ModeClick(mode)
  \/ OpacitySliderInput(150)
  \/ SpeedSliderInput(50)
  \/ PlayBtnClick
  \/ TimerTick
  \/ RefreshBtnClick
  \/ \E r \in InFlight : \E res \in OverlayPrimary : PrimaryResponse(r, res)
  \/ \E r \in InFlight : \E res \in OverlaySecondary : SecondaryResponse(r, res)

SpecOverlays == Init /\ [][NextOverlays]_vars

\* refreshes during which the user presses no mode button: the mode buttons
\* are pressed only while no initRadarAnimation is in flight
NextQuietRefresh ==
  \/ \E mode \in ModeInputs : refreshes = EmptyBag /\ ModeClick(mode)
  \/ \E size \in {256, 512} : ResolutionClick(size)
  \/ PlayBtnClick
  \/ RefreshBtnClick
  \/ \E r \in InFlight : \E res \in OverlayPrimary : PrimaryResponse(r, res)
  \/ \E r \in InFlight : \E res \in OverlaySecondary : SecondaryResponse(r, res)

SpecQuietRefresh == Init /\ [][NextQuietRefresh]_vars

\* playback left alone: the controls and the feed act only while playback
\* is stopped, and a scheduled interval keeps firing
PlaybackPrimary == {Response("ok", PFull), Response("ok", PLong)}

NextPlayback ==
  \/ \E v \in {"radar", "temp"} : ~isPlaying /\ LayerSelectChange(v)
  \/ \E mode \in ModeInputs : ~isPlaying /\ ModeClick(mode)
  \/ \E size \in {256, 512} : ~isPlaying /\ ResolutionClick(size)
  \/ \E v \in 0..7 : ~isPlaying /\ FrameSliderInput(v)
  \/ ~isPlaying /\ RefreshBtnClick
  \/ \E r \in InFlight : \E res \in PlaybackPrimary :
       ~isPlaying /\ PrimaryResponse(r, res)
  \/ ~isPlaying /\ PlayBtnClick
  \/ TimerTick

SpecPlayback == Init /\ [][NextPlayback]_vars /\ WF_vars(TimerTick)

\* refreshes whose satellite part fails, under either kind of layer type
\* and every mode
IsolationPrimary ==
  {Response("ok", PRadarOnly), Response("ok", PFull), Response("nonok", PNothing),
   Response("ok", Payload("object", TRUE, <<100, 200>>, <<300>>, <<>>, FALSE,
                          TRUE, SatEmpty))}
IsolationSecondary ==
  {Response("netfail", SatEmpty), Response("nonok", SatEmpty),
   Response("badjson", SatEmpty), Response("ok", SatSecondary)}

NextIsolation ==
  \/ \E v \in {"radar", "temp"} : LayerSelectChange(v)
  \/ \E mode \in ModeInputs : ModeClick(mode)
  \/ RefreshBtnClick
  \/ \E r \in InFlight : \E res \in IsolationPrimary : PrimaryTraced(r, res)
  \/ \E r \in InFlight : \E res \in IsolationSecondary : SecondaryTraced(r, res)

SpecIsolation == Init /\ [][NextIsolation]_vars

(***************************************************************************)
(* Properties                                                              *)
(***************************************************************************)
Frames == ActiveFrames(St)
FrameCount == Len(Frames)

\* what the map shows, counting overlay objects the program lost track of
StaticAttached == map.hasRadarLayer \/ "static" \in map.orphans
AnimatedAttached == map.hasRainLayer \/ "animated" \in map.orphans

\* no initRadarAnimation is between storing the radar FrameSet and finishing
BetweenOperations == \A r \in InFlight : r.pc = "primary"

Playing == isPlaying /\ \E t \in timers : t.id = animTimer

\* the same observations on the state s a function returns
StaticOn(s) == s.map.hasRadarLayer \/ "static" \in s.map.orphans
AnimatedOn(s) == s.map.hasRainLayer \/ "animated" \in s.map.orphans
PlayingIn(s) == s.isPlaying /\ \E t \in s.timers : t.id = s.animTimer

\* C1: whenever the stored mode is auto and no operation is under way, the
\* static overlay alone is attached if the active FrameSet is empty and the
\* animated overlay alone is attached if it is not
C1_AutoPolicy ==
  (currentMode = "auto" /\ BetweenOperations) =>
    IF FrameCount = 0
    THEN StaticAttached /\ ~AnimatedAttached
    ELSE AnimatedAttached /\ ~StaticAttached

\* C2: the step in which a refresh finishes, successfully or not, leaves the
\* stored display mode as it was
C2_RefreshKeepsMode ==
  [][lastOp'.kind \in {"ok", "failed"} => currentMode' = currentMode]_vars

\* C3: the two overlays are never attached together while the stored mode is
\* static or animated, and none is attached while it is off
C3_Exclusive ==
  /\ currentMode \in {"static", "animated"} => ~(StaticAttached /\ AnimatedAttached)
  /\ currentMode = "off" => ~StaticAttached /\ ~AnimatedAttached

C3_Witness ==
  /\ currentMode = "animated"
  /\ map.hasRainLayer
  /\ FrameCount > 1
  /\ frameIndex = 0
  /\ TILE_SIZE = 512
  /\ isPlaying

\* C4: while the active FrameSet is empty and the stored mode is not off, the
\* static overlay is attached
C4_NeverBlank ==
  (FrameCount = 0 /\ currentMode # "off") => StaticAttached

\* C5: whenever the active FrameSet is not empty, frameIndex is one of its
\* indices
C5_IndexValid ==
  FrameCount > 0 => frameIndex \in 0..(FrameCount - 1)

\* C6: advancing by +1 or -1 from a valid index of a non-empty FrameSet of
\* length N moves frameIndex to (frameIndex + direction) mod N, within 0..N-1
C6_Circular ==
  [][(lastOp'.kind \in {"forward", "back"} /\ FrameCount > 0
      /\ frameIndex \in 0..(FrameCount - 1)) =>
       LET direction == IF lastOp'.kind = "forward" THEN 1 ELSE 0 - 1
       IN /\ frameIndex' = (frameIndex + direction) % FrameCount
          /\ frameIndex' \in 0..(FrameCount - 1)
          /\ (frameIndex = FrameCount - 1 /\ direction = 1 => frameIndex' = 0)
          /\ (frameIndex = 0 /\ direction = 0 - 1 => frameIndex' = FrameCount - 1)
    ]_vars

\* a step back has just wrapped from index 0 to the last index
C6_Witness ==
  /\ lastOp.kind = "back"
  /\ FrameCount >= 3
  /\ frameIndex = FrameCount - 1

\* C7: a layer switch leaves frameIndex at the last frame of the new FrameSet
\* when that is not empty, and playback runs afterwards exactly when it ran
\* before and the new FrameSet is not empty
C7_LayerSwitch ==
  [][lastOp'.kind = "layer" =>
       /\ (FrameCount' > 0 => frameIndex' = FrameCount' - 1)
       /\ (Playing' <=> (Playing /\ FrameCount' > 0))
       /\ lastOp'.flag = Playing
    ]_vars

\* a switch made while playing has resumed playback on the new FrameSet
C7_Witness ==
  /\ lastOp = Op("layer", TRUE)
  /\ Playing
  /\ currentLayerType = "satellite"
  /\ FrameCount >= 2
  /\ frameIndex = FrameCount - 1

C9_LatestWins == refreshes = EmptyBag => sameSource

\* C10: at most one playback interval is scheduled, and it is the one the
\* program holds the handle of
C10_SingleTimer ==
  /\ Cardinality(timers) <= 1
  /\ \A t \in timers : t.id = animTimer

\* playback restarted at another speed: the only interval has the new period
C10_Witness ==
  /\ isPlaying
  /\ timers = {[id |-> animTimer, period |-> 120]}
  /\ FRAME_INTERVAL = 120

\* C11: play() changes nothing when playback is running or the active
\* FrameSet is empty, a second play() changes nothing after a first, and a
\* second pause() changes nothing after a first
C11_PlayPauseIdempotent ==
  /\ (Playing \/ FrameCount = 0) => play(St) = St
  /\ play(play(St)) = play(St)
  /\ pause(pause(St)) = pause(St)

\* playback runs on a non-empty FrameSet, where a further play() is the
\* no-op and pause() is not
C11_Witness ==
  /\ Playing
  /\ FrameCount > 1
  /\ play(St) = St
  /\ pause(St) # St

\* C12: the step in which a refresh fails while playback is running leaves
\* no interval scheduled and isPlaying false
C12_FailureStopsTimer ==
  [][(lastOp'.kind = "failed" /\ Playing) =>
       (~isPlaying' /\ animTimer' = 0 /\ timers' = {})]_vars

\* C13: the step in which a refresh fails leaves the radar and the satellite
\* FrameSet empty
C13_FailureClearsFrames ==
  [][lastOp'.kind = "failed" =>
       (rainFrames' = <<>> /\ satelliteFrames' = <<>>)]_vars

\* C14: whatever the two feeds answer, the step in which a refresh finishes
\* takes the call out of flight and, when the active FrameSet is empty
\* afterwards, leaves the static overlay attached
C14_ErrorsRecovered ==
  [][lastOp'.kind \in {"ok", "failed"} =>
       /\ BagCardinality(refreshes') = BagCardinality(refreshes) - 1
       /\ (FrameCount' = 0 => StaticAttached')]_vars

\* the radar feed has answered and the satellite feed has not: the call has
\* finished on the satellite layer with the static overlay
C14_Witness ==
  /\ lastOp.kind = "ok"
  /\ currentLayerType = "satellite"
  /\ Len(rainFrames) > 0
  /\ FrameCount = 0
  /\ StaticAttached
  /\ refreshes = EmptyBag

\* C15: from any state setMode('off') leaves no overlay attached, and
\* setMode('static') after it leaves the static overlay attached and the
\* animated overlay detached
C15_OffThenStatic ==
  LET off == setMode(St, "off")
      static == setMode(off, "static")
  IN /\ off.currentMode = "off"
     /\ ~StaticOn(off) /\ ~AnimatedOn(off)
     /\ static.currentMode = "static"
     /\ StaticOn(static) /\ ~AnimatedOn(static)

\* Off has been selected while an animated overlay object exists
C15_Witness ==
  /\ currentMode = "off"
  /\ rainLayer # NullLayer
  /\ FrameCount > 1
  /\ ~StaticAttached /\ ~AnimatedAttached
  /\ StaticOn(setMode(St, "static"))

\* C16: from any state whose frameIndex is valid, setResolution(512)
\* followed by setResolution(256) ends with tile size 256, frame interval
\* 450 and the frameIndex it started with
C16_ResolutionRoundTrip ==
  LET r == setResolution(setResolution(St, 512), 256) IN
  (FrameCount > 0 => frameIndex \in 0..(FrameCount - 1)) =>
     /\ r.TILE_SIZE = 256
     /\ r.FRAME_INTERVAL = 450
     /\ r.frameIndex = frameIndex

\* half way through the round trip, on a frame that is not the latest
C16_Witness ==
  /\ TILE_SIZE = 512
  /\ FRAME_INTERVAL = 650
  /\ FrameCount >= 3
  /\ frameIndex = 1
  /\ setResolution(St, 256).frameIndex = 1

\* C17: setResolution(size) sets the frame interval to 650 for 512 and to
\* 450 otherwise, leaves no lost animated overlay object on the map, leaves
\* playback running exactly when it ran before, then on one interval of the
\* new period, and keeps the stored mode
C17_ResolutionKeepsPlayState ==
  \A size \in {256, 512} :
    LET r == setResolution(St, size) IN
    /\ r.TILE_SIZE = size
    /\ r.FRAME_INTERVAL = IF size = 512 THEN 650 ELSE 450
    /\ "animated" \notin r.map.orphans
    /\ PlayingIn(r) <=> Playing
    /\ PlayingIn(r) => r.timers = {[id |-> r.animTimer, period |-> r.FRAME_INTERVAL]}
    /\ ~PlayingIn(r) => r.timers = {}
    /\ r.currentMode = currentMode

\* C18: advancing on a non-empty active FrameSet changes only the URL of an
\* animated overlay object that exists and creates none, whatever the
\* stored mode; when none exists one is created, and it is attached exactly
\* when the stored mode is animated or auto
C18_AdvanceReusesOverlay ==
  \A direction \in {0 - 1, 1} :
    LET r == showFrame(St, frameIndex + direction) IN
    FrameCount > 0 =>
      IF rainLayer # NullLayer
      THEN /\ ~r.created
           /\ r.rainLayer = [rainLayer EXCEPT !.url = r.rainLayer.url]
           /\ r.map = map
      ELSE /\ r.created
           /\ r.rainLayer # NullLayer
           /\ r.map.hasRainLayer <=> currentMode \in {"animated", "auto"}

\* C19: the max-frames input handler stores min(60, max(6, n)) for every
\* integer input n
C19_MaxFramesClamp ==
  [][\A n \in MaxFramesInputs :
       MaxFramesInput(n) => MAX_FRAMES' = Min(60, Max(6, n))]_vars

\* C20: the max-frames handlers leave the stored FrameSets, frameIndex and
\* the overlays as they are, and every FrameSet a refresh stores is cut to
\* the cap of the time the refresh was started
C20_CapOnNextRefresh ==
  [][/\ ((\E n \in MaxFramesInputs : MaxFramesInput(n)) \/ MaxFramesChange) =>
          UNCHANGED <<rainFrames, satelliteFrames, frameIndex, map,
                      radarLayer, rainLayer>>
     /\ issueCapUsed']_vars

\* C21: the opacity input handler stores the input clamped to 20..100
\* hundredths, and afterwards the static overlay and the animated overlay,
\* if there is one, have the stored opacity
C21_OpacityClamp ==
  [][\A v \in OpacityInputs :
       OpacitySliderInput(v) =>
         /\ LAYER_OPACITY' = Max(20, Min(100, v))
         /\ radarLayer'.opacity = LAYER_OPACITY'
         /\ rainLayer' # NullLayer => rainLayer'.opacity = LAYER_OPACITY']_vars

\* C22: tile size is 256 or 512, opacity is within 20..100 hundredths, the
\* frame interval within 120..800 ms and the frame cap within 6..60
C22_Ranges ==
  /\ TILE_SIZE \in {256, 512}
  /\ LAYER_OPACITY \in 20..100
  /\ FRAME_INTERVAL \in 120..800
  /\ MAX_FRAMES \in 6..60

\* every control has been driven beyond the end of its range
C22_Witness ==
  /\ TILE_SIZE = 512
  /\ LAYER_OPACITY = 20
  /\ FRAME_INTERVAL = 800
  /\ MAX_FRAMES = 60
  /\ isPlaying

\* C27: the recommended cap is 24 on a mobile device, else 48 from 8 GB of
\* device memory, 36 from 4 GB and 24 below, an unknown device memory
\* counting as 4 GB; it is at most 60 and it is the initial frame cap
C27_RecommendedMaxFrames ==
  lastOp.kind = "init" =>
    LET d == lastOp.device
        memory == IF d.deviceMemory = 0 THEN 4 ELSE d.deviceMemory
    IN /\ RECOMMENDED_MAX_FRAMES =
            IF d.isMobile THEN 24
            ELSE IF memory >= 8 THEN 48
            ELSE IF memory >= 4 THEN 36 ELSE 24
       /\ RECOMMENDED_MAX_FRAMES <= 60
       /\ MAX_FRAMES = RECOMMENDED_MAX_FRAMES

\* a desktop whose device memory is unknown starts with the cap 36
C27_Witness ==
  /\ lastOp.kind = "init"
  /\ lastOp.device = [isMobile |-> FALSE, deviceMemory |-> 0]
  /\ MAX_FRAMES = 36

\* C23: the radar FrameSet a successful refresh stores is the finite values of
\* the past list followed by the nowcast list, in ascending order, cut to the
\* last maxFrames of them: as many as the cap allows, nothing that the feed
\* did not list, and every value left out is no later than the earliest one
\* kept; past 100,200,300 with nowcast 400 and a cap of 3 gives 200,300,400
C23_RadarNormalization ==
  [][(/\ lastOp'.kind = "primary"
      /\ lastOp'.res.data.shape = "object"
      /\ lastOp'.res.data.hasRadar) =>
       \A raw \in {lastOp'.res.data.past \o lastOp'.res.data.nowcast} :
         LET Count(q, v) == Cardinality({i \in 1..Len(q) : q[i] = v})
             Listed(v) == IF IsFinite(v) THEN Count(raw, v) ELSE 0
             Finite == Cardinality({i \in 1..Len(raw) : IsFinite(raw[i])})
             Normal(out, cap) ==
               /\ Len(out) = Min(cap, Finite)
               /\ \A i \in 1..(Len(out) - 1) : out[i] <= out[i + 1]
               /\ \A i \in 1..Len(out) : Count(out, out[i]) <= Listed(out[i])
               /\ \A i \in 1..Len(raw) :
                    Count(out, raw[i]) < Listed(raw[i]) =>
                      out # <<>> /\ raw[i] <= out[1]
         IN /\ Normal(rainFrames', MAX_FRAMES')
            /\ \A cap \in 1..8 : \A out \in {RadarFrames(raw, cap)} : Normal(out, cap)
            /\ RadarFrames(<<100, 200, 300>> \o <<400>>, 3) = <<200, 300, 400>>]_vars

C23_Witness ==
  /\ lastOp.kind = "primary"
  /\ lastOp.res.data.past = <<50, 40, 30, 20, 10, 60, 70>>
  /\ MAX_FRAMES = 6
  /\ rainFrames = <<20, 30, 40, 50, 60, 70>>

\* C24: the satellite FrameSet a refresh stores has one frame for each path
\* found at any depth of the payload, namely the first one in visit order,
\* in ascending order of time with a missing time counted as 0, cut to the
\* last maxFrames; paths a, b, a give two frames and the first a is the one kept
C24_SatelliteNormalization ==
  [][(\/ lastOp'.kind = "primary" /\ ~lastOp'.flag
      \/ lastOp'.kind = "secondary" /\ lastOp'.res.status = "ok") =>
       \A src \in {IF lastOp'.kind = "primary" THEN lastOp'.res.data.satellite
                                                ELSE lastOp'.res.data} :
       \A flat \in {visit(src)} : \A out \in {extractSatelliteFrames(src)} :
       \A ex \in {extractSatelliteFrames(SatInline)} :
         LET Paths(q) == {q[i].path : i \in 1..Len(q)}
             Key(f) == IF f.time = NoTime THEN 0 ELSE f.time
             n == Min(MAX_FRAMES', Len(out))
         IN /\ Paths(out) = Paths(flat)
            /\ \A i, j \in 1..Len(out) : i # j => out[i].path # out[j].path
            /\ \A i \in 1..Len(out) : \E k \in 1..Len(flat) :
                 /\ flat[k] = out[i]
                 /\ \A m \in 1..(k - 1) : flat[m].path # out[i].path
            /\ \A i \in 1..(Len(out) - 1) : Key(out[i]) <= Key(out[i + 1])
            /\ satelliteFrames' = SubSeq(out, Len(out) - n + 1, Len(out))
            /\ ex = <<[path |-> "a", time |-> 100], [path |-> "b", time |-> 200]>>]_vars

C24_Witness ==
  /\ lastOp.kind = "primary"
  /\ ~lastOp.flag
  /\ lastOp.res.data.satellite = SatDeep
  /\ MAX_FRAMES = 6
  /\ Len(satelliteFrames) = 6
  /\ satelliteFrames[1] = [path |-> "p5", time |-> 10]
  /\ satelliteFrames[2] = [path |-> "p2", time |-> 20]

\* C25: the radar FrameSet and the satellite FrameSet hold no token twice and
\* are in ascending order of timestamp, also when the feed lists one radar
\* timestamp in both the past and the nowcast list
C25_WellFormed ==
  /\ \A i \in 1..(Len(rainFrames) - 1) : rainFrames[i] < rainFrames[i + 1]
  /\ \A i, j \in 1..Len(satelliteFrames) :
       i # j => satelliteFrames[i].path # satelliteFrames[j].path
  /\ \A i \in 1..(Len(satelliteFrames) - 1) :
       SatSortKey(satelliteFrames[i]) <= SatSortKey(satelliteFrames[i + 1])

\* C26: within one refresh satellite.json is requested exactly when the
\* primary payload yielded no satellite frame, and the satellite FrameSet is
\* then what the same extraction yields on the secondary payload
C26_SecondaryFallback ==
  [][LET Waiting(B) == BagCardinality(B) - BagCardinality(
                         [c \in {x \in BagToSet(B) : x.pc = "primary"} |-> B[c]])
     IN /\ lastOp'.kind = "primary" =>
             \A inline \in {IF lastOp'.res.data.hasSatellite
                            THEN extractSatelliteFrames(lastOp'.res.data.satellite)
                            ELSE <<>>} :
               /\ Waiting(refreshes') = Waiting(refreshes) + 1 <=> Len(inline) = 0
               /\ Waiting(refreshes') \in {Waiting(refreshes), Waiting(refreshes) + 1}
               /\ Len(inline) > 0 =>
                    satelliteFrames' = SliceLast(inline, MAX_FRAMES')
        /\ (lastOp'.kind = "secondary" /\ lastOp'.res.status = "ok") =>
             /\ Waiting(refreshes') = Waiting(refreshes) - 1
             /\ BagCardinality(refreshes') = BagCardinality(refreshes) - 1
             /\ satelliteFrames' =
                  SliceLast(extractSatelliteFrames(lastOp'.res.data), MAX_FRAMES')]_vars

C26_Witness ==
  /\ lastOp.kind = "secondary"
  /\ lastOp.res = Response("ok", SatSecondary)
  /\ satelliteFrames = <<[path |-> "e", time |-> NoTime], [path |-> "c", time |-> 150],
                         [path |-> "d", time |-> 250]>>

C29_ParseWindMph ==
  lastOp.kind = "parseWindMph" =>
    LET arg == lastOp.arg
        chars == IF arg.type = "string" THEN arg.chars ELSE <<>>
        Digit(i) == i \in 1..Len(chars) /\ IsDigit(chars[i])
        RECURSIVE Value(_, _)
        Value(i, j) ==
          IF i > j THEN 0
          ELSE 10 * Value(i, j - 1)
               + (CHOOSE d \in 0..9 : Digits[d + 1] = chars[j])
        Occurring ==
          {Value(r[1], r[2]) :
             r \in {q \in (1..Len(chars)) \X (1..Len(chars)) :
                      /\ q[1] <= q[2]
                      /\ \A k \in q[1]..q[2] : Digit(k)
                      /\ ~Digit(q[1] - 1)
                      /\ ~Digit(q[2] + 1)}}
    IN /\ IF Occurring = {}
          THEN lastOp.result = JsNull
          ELSE /\ lastOp.result.type = "number"
               /\ \E n \in Occurring :
                    /\ lastOp.result.value = 10 * n
                    /\ \A m \in Occurring : m <= n
       /\ parseWindMph(Str(<<"5", " ", "t", "o", " ", "1", "5", " ", "m", "p", "h">>))
            = Num(150)

C29_Witness ==
  /\ lastOp.kind = "parseWindMph"
  /\ lastOp.arg = Str(<<"5", " ", "1", "5">>)
  /\ lastOp.result = Num(150)

\* C30: gustMph returns the rounded number when windGust is a number, the
\* largest number of the string when it is a string with a digit, and null
\* when the period is null, windGust is missing or null, or the string holds
\* no digit; it always returns a number or null
C30_GustMph ==
  lastOp.kind = "gustMph" =>
    LET g == IF lastOp.arg.type = "object" THEN lastOp.arg.windGust ELSE JsUndefined
        result == lastOp.result
    IN /\ result.type \in {"number", "null"}
       /\ g.type = "number" =>
            /\ result.type = "number"
            /\ result.value % 10 = 0
            /\ result.value - 5 <= g.value
            /\ g.value < result.value + 5
       /\ g.type = "string" =>
            /\ result = parseWindMph(g)
            /\ result.type = "number" <=> \E i \in 1..Len(g.chars) : IsDigit(g.chars[i])
       /\ g.type \in {"null", "undefined"} => result = JsNull

C30_Witness ==
  /\ lastOp.kind = "gustMph"
  /\ lastOp.arg = Period(Num(246))
  /\ lastOp.result = Num(250)

\* C31: whenever the animated overlay is attached to the map, its URL is the
\* resolver's result for the current layer type, the token of the active
\* FrameSet at frameIndex and the current tile size; an overlay built for a
\* previous layer type is never attached after a layer switch (states in
\* which a refresh waits between its two requests are left aside)
C31_AnimatedOverlayConsistent ==
  (BetweenOperations /\ map.hasRainLayer) =>
    /\ frameIndex \in 0..(FrameCount - 1)
    /\ rainLayer.url =
         rvFrameUrl(getFrameToken(Frames[frameIndex + 1], currentLayerType),
                    TILE_SIZE, currentLayerType)

\* C32: a layer select never changes the stored mode: whatever the stored
\* mode and the target layer type, with an empty or a non-empty FrameSet, the
\* stored mode after the call is the stored mode before it
C32_LayerSelectKeepsMode ==
  \A v \in {"radar", "satellite", "clouds", "temp"} :
    setLayerType(St, v).currentMode = currentMode

\* C33: when the stored mode is off as a refresh starts and no mode button is
\* pressed meanwhile, then after the refresh has completed, with frames,
\* without frames or with a failure, the stored mode is still off and
\* neither overlay is attached
C33_OffSticky ==
  [][(currentMode = "off" /\ lastOp'.kind \in {"ok", "failed"}) =>
       /\ currentMode' = "off"
       /\ ~map'.hasRadarLayer
       /\ ~map'.hasRainLayer
       /\ map'.orphans = {}]_vars

\* C34: whenever isPlaying is true the FrameSet of the active layer type is
\* not empty, also after a refresh that yields no frame for the active layer
\* while playback runs (states in which a refresh waits between its two
\* requests are left aside)
C34_PlayingImpliesFrames ==
  (BetweenOperations /\ isPlaying) => FrameCount > 0

\* C35: isPlaying is true exactly when a playback interval is scheduled, and
\* the period of the scheduled interval is the current FRAME_INTERVAL, also
\* after the speed slider or the resolution changed while playing
C35_TimerAgrees ==
  /\ isPlaying <=> timers # {}
  /\ isPlaying <=> animTimer # 0
  /\ \A t \in timers : t.id = animTimer /\ t.period = FRAME_INTERVAL

C35_Witness ==
  /\ isPlaying
  /\ FRAME_INTERVAL = 120
  /\ TILE_SIZE = 512
  /\ timers = {[id |-> animTimer, period |-> 120]}

\* C36: a mode button changes only the stored mode and which overlays are on
\* the map: the frame index, isPlaying and the interval, the layer type, both
\* FrameSets, the tile size, the frame interval, the opacity, the frame cap
\* and the overlay objects are after the call what they were before it,
\* for every mode and in every state
C36_ModeChangesOnlyMode ==
  \A mode \in ModeInputs : \A s \in {setMode(St, mode)} :
    /\ s.currentMode = mode
    /\ [s EXCEPT !.currentMode = currentMode, !.map = map] = St

C36_Witness ==
  /\ currentMode = "off"
  /\ isPlaying
  /\ timers # {}
  /\ FrameCount > 0
  /\ rainLayer # NullLayer
  /\ ~map.hasRainLayer
  /\ ~map.hasRadarLayer

\* C37: in every state the static overlay object holds the static URL of
\* the current layer type, and no static overlay of another layer type is
\* left on the map, so that after any layer select the static overlay that
\* can be attached is the one of the layer selected
C37_StaticOverlayConsistent ==
  /\ radarLayer # NullLayer
  /\ radarLayer.url = getStaticLayerUrl(currentLayerType)
  /\ "static" \notin map.orphans

C37_Witness ==
  /\ currentLayerType = "temp"
  /\ map.hasRadarLayer
  /\ radarLayer.url[2] = "ridge::GOES-CONUS-13-0"
  /\ rainFrames # <<>>

\* C38: in every state every overlay object that exists, static or animated,
\* on the map or not, has the stored opacity, also an overlay created after
\* the last move of the opacity slider by a layer select, a resolution
\* button or a frame advance; no overlay is on the map without a variable
\* that still names it
C38_OpacityConsistent ==
  /\ radarLayer # NullLayer => radarLayer.opacity = LAYER_OPACITY
  /\ rainLayer # NullLayer => rainLayer.opacity = LAYER_OPACITY
  /\ map.orphans = {}

C38_Witness ==
  /\ LAYER_OPACITY = 100
  /\ currentLayerType = "temp"
  /\ radarLayer.opacity = 100
  /\ map.hasRainLayer
  /\ rainLayer.opacity = 100
  /\ rainLayer.tileSize = 512

\* C39: while playback runs on a FrameSet of N >= 1 frames and nothing else
\* happens, with the interval firing again and again, every index of 0..N-1
\* becomes the frame index again, and each tick moves the index one step
\* forward, from N-1 back to 0
C39_PlaybackProgress ==
  /\ \A i \in 0..7 : (isPlaying /\ i < FrameCount) ~> (isPlaying /\ frameIndex = i)
  /\ [][(isPlaying /\ isPlaying') =>
         /\ FrameCount' = FrameCount
         /\ FrameCount >= 1
         /\ frameIndex' = (frameIndex + 1) % FrameCount]_vars

C39_Witness ==
  /\ isPlaying
  /\ currentLayerType = "radar"
  /\ FrameCount = 8
  /\ frameIndex = 0
  /\ rainLayer.url = rvFrameUrl(10, TILE_SIZE, "radar")

\* C40: when maps.json succeeds with radar data and the satellite request
\* fails (network error, non-OK status or unreadable body), the refresh
\* stores the radar FrameSet built from the primary payload, keeps it, stores
\* an empty satellite FrameSet, ends, and resolves the overlays for the active
\* layer type: the animated overlay of the latest frame under auto and
\* animated when the active FrameSet has frames, the static overlay alone
\* when it has none, and never both
C40_SatelliteFailureIsolated ==
  [][/\ (/\ lastOp'.kind = "primary"
          /\ lastOp'.flag
          /\ lastOp'.res.data.hasRadar) =>
           rainFrames' = RadarFrames(lastOp'.res.data.past \o lastOp'.res.data.nowcast,
                                     MAX_FRAMES)
     /\ (lastOp'.kind = "secondary" /\ lastOp'.res.status # "ok") =>
           /\ rainFrames' = rainFrames
           /\ satelliteFrames' = <<>>
           /\ BagCardinality(refreshes') = BagCardinality(refreshes) - 1
           /\ ~(map'.hasRadarLayer /\ map'.hasRainLayer)
           /\ map'.orphans = {}
           /\ IF currentLayerType' = "radar" /\ rainFrames' # <<>>
              THEN /\ currentMode' = currentMode
                   /\ frameIndex' = Len(rainFrames') - 1
                   /\ rainLayer'.url = rvFrameUrl(rainFrames'[Len(rainFrames')],
                                                  TILE_SIZE', "radar")
                   /\ map'.hasRainLayer <=> currentMode' \in {"auto", "animated"}
                   /\ map'.hasRadarLayer <=> currentMode' = "static"
              ELSE /\ map'.hasRadarLayer
                   /\ ~map'.hasRainLayer
                   /\ slider'.disabled]_vars

C40_Witness ==
  /\ lastOp.kind = "secondary"
  /\ lastOp.res.status = "netfail"
  /\ currentLayerType = "radar"
  /\ currentMode = "animated"
  /\ rainFrames = <<500, 600>>
  /\ satelliteFrames = <<>>
  /\ map.hasRainLayer

====
